---- MODULE Spec2Model ----
(***************************************************************************)
(* The playback / transcript / causal-graph synchronisation script that    *)
(* src/app.py embeds in the page (lines 340-596), together with the data   *)
(* that main() hands to it (lines 155-194, 342-344), and main() itself     *)
(* with the three loaders (lines 26-78, 110-631).                          *)
(*                                                                         *)
(* Strings of the page (attribute values, edge lines) are TLA+ strings;    *)
(* JavaScript numbers are integers, with NaN and null as two values that   *)
(* are no playback time and no node id.  Playback times are whole units.   *)
(***************************************************************************)
EXTENDS Integers, Sequences, FiniteSets, TLC

\* ------------------------------------------------------------------ bounds
NumSegments == 2
MaxTime == 2
MaxEdges == 2

\* --------------------------------------------------------- values and text
\* parseInt / parseFloat return NaN on text that does not start with a number
NaN == -1
\* getAttribute returns null for an attribute the element does not carry
Null == -2

Numerals == <<"0", "1", "2", "3", "4", "5", "6", "7", "8", "9">>

\* str(k) as Python's f-string and json.dumps write it
NumStr(k) == Numerals[k + 1]

\* the number a decimal text denotes
NumeralValue ==
    [s \in {Numerals[k] : k \in 1..Len(Numerals)} |->
        (CHOOSE k \in 1..Len(Numerals) : Numerals[k] = s) - 1]

\* parseInt(s, 10) of a trimmed piece of text
parseInt(s) == IF s \in DOMAIN NumeralValue THEN NumeralValue[s] ELSE NaN

\* parseFloat(s) of an attribute value
parseFloat(s) == IF s \in DOMAIN NumeralValue THEN NumeralValue[s] ELSE NaN

isNaN(x) == x = NaN

Times == 0..MaxTime
SegIds == 0..(NumSegments - 1)

HighlightClasses ==
    {"highlight", "unmatched-highlight", "predecessor-highlight", "successor-highlight"}

\* ------------------------------------------------------------- the feeds
\* A transcript record is [begin_time, end_time, text, matched]; a time field is a
\* number, a text that is no number, or "" (the .get default of a missing key).
\* The timings one record may carry: every interval with begin < end, no
\* timing at all, a begin that is no number, and a begin without an end
TimingCases ==
    {[begin_time |-> NumStr(iv[1]), end_time |-> NumStr(iv[2])] :
        iv \in {x \in Times \X Times : x[1] < x[2]}}
        \cup {[begin_time |-> "", end_time |-> ""],
              [begin_time |-> "n/a", end_time |-> NumStr(1)],
              [begin_time |-> NumStr(0), end_time |-> ""]}

\* transcripts with any timing per record (overlaps, gaps, shared
\* boundaries, records without timing), matched and unmatched alternating
TimingFeeds ==
    {[i \in SegIds |->
        [begin_time |-> tm[i].begin_time, end_time |-> tm[i].end_time,
         text |-> "s", matched |-> IF i % 2 = 0 THEN "yes" ELSE "no"]] :
     tm \in [SegIds -> TimingCases]}

\* matched flags of a transcript: all matched, or alternating from either one
MatchedPatterns ==
    {[i \in SegIds |-> "yes"],
     [i \in SegIds |-> IF i % 2 = 0 THEN "yes" ELSE "no"],
     [i \in SegIds |-> IF i % 2 = 0 THEN "no" ELSE "yes"]}

\* transcripts of consecutive unit intervals
UnitFeeds ==
    {[i \in SegIds |->
        [begin_time |-> NumStr(i), end_time |-> NumStr(i + 1),
         text |-> "s", matched |-> m[i]]] :
     m \in MatchedPatterns}

\* one line of the edge feed, as the pieces split('->') cuts it into, each
\* piece trimmed: "0 -> 1" is <<"0", "1">>, a blank line is <<"">>, a line
\* "x" without an arrow is <<"x">>, a line
\* with text on both sides of the arrow that is no number is <<"x", "y">>
WellFormedLines == {<<NumStr(s), NumStr(t)>> : s \in SegIds, t \in SegIds}

\* (strip() leaves a blank line only between other lines, or as the one line
\* of an empty body)
MalformedLines == {<<"x">>, <<"x", "y">>}

RECURSIVE SeqsUpTo(_, _)
SeqsUpTo(S, n) ==
    IF n = 0 THEN {<<>>}
    ELSE LET shorter == SeqsUpTo(S, n - 1)
         IN shorter \cup {Append(q, x) : q \in {r \in shorter : Len(r) = n - 1}, x \in S}

\* edge feeds of up to MaxEdges lines: any well-formed lines in any order
\* (repeats, self-loops, cycles), or well-formed lines and one malformed line
EdgeFeeds ==
    SeqsUpTo(WellFormedLines, MaxEdges)
        \cup {Append(q, x) : q \in SeqsUpTo(WellFormedLines, MaxEdges - 1),
                              x \in MalformedLines}

\* the chain 0 -> 1 -> ... over the segments
ChainEdges == [k \in 1..(NumSegments - 1) |-> <<NumStr(k - 1), NumStr(k)>>]

\* the edge feeds the transcripts of TimingFeeds come with: none (the fetch
\* failed), the chain, and the chain followed by a line without an arrow
ChainFeeds == {<<>>, ChainEdges, Append(ChainEdges, <<"x">>)}

\* the label of node k in the node feed, after load_nodes stripped it
NodeLabels == <<"n0", "n1", "n2", "n3", "n4", "n5", "n6", "n7", "n8", "n9">>

\* the first n lines of a node file
NodeFile(n) == [k \in 1..n |-> "Node " \o NumStr(k - 1) \o ": " \o NodeLabels[k]]

\* a transcript whose first record has no 'text' key
MissingTextFeed ==
    [i \in SegIds |->
        IF i = 0
        THEN [begin_time |-> NumStr(i), end_time |-> NumStr(i + 1), matched |-> "yes"]
        ELSE [begin_time |-> NumStr(i), end_time |-> NumStr(i + 1),
              text |-> "s", matched |-> "yes"]]

\* what requests.get(transcript_url) may come to: a 200 with a JSON list, a
\* 200 whose body is no JSON, another status, or no response at all
TranscriptResponses ==
    {[kind |-> "ok", data |-> d] : d \in UnitFeeds \cup {MissingTextFeed}}
        \cup {[kind |-> k, data |-> <<>>] : k \in {"undecodable", "status", "transport"}}

\* the node file in full, or one line short of the segments
NodeResponses ==
    {[kind |-> "ok", data |-> NodeFile(NumSegments)],
     [kind |-> "ok", data |-> NodeFile(NumSegments - 1)]}
        \cup {[kind |-> k, data |-> <<>>] : k \in {"status", "transport"}}

\* the edge file: empty, the chain ending in a blank line, the chain with a
\* blank line before a back edge
EdgeResponses ==
    {[kind |-> "ok", data |-> <<>>],
     [kind |-> "ok", data |-> Append(ChainEdges, <<"">>)],
     [kind |-> "ok", data |-> ChainEdges \o << <<"">>, <<NumStr(1), NumStr(0)>> >>]}
        \cup {[kind |-> k, data |-> <<>>] : k \in {"status", "transport"}}

\* no request was made
NoResponse == [kind |-> "none", data |-> <<>>]

\* two of the seven languages of the selectbox
languages == {"English", "Chinese"}

VARIABLES
    sentences,            \* the .sentence elements: data-start, data-end, data-matched
    useCausalRelations,   \* const useCausalRelations
    causalEdges,          \* const causalEdges
    nodes,                \* const nodes
    classList,            \* highlight classes of each sentence element
    graph,                \* children of #graph's main container; <<>> is innerHTML = ''
    currentTime,          \* video.currentTime
    playing,              \* the video is playing (video.play() was called, not paused)
    seekPending,          \* a seek commanded by a click has not raised 'seeked' yet
    lastEvent,            \* the listener that ran last, its argument, and whether it returned
    run,                  \* the last run of main(): widgets, session state, requests, what it showed
    nodes_raw,            \* the lines of the node file as fetched
    edges_raw,            \* the lines of the edge file as fetched
    console               \* what the page script wrote to the console

vars == <<sentences, useCausalRelations, causalEdges, nodes, classList, graph,
          currentTime, playing, seekPending, lastEvent,
          run, nodes_raw, edges_raw, console>>

\* ------------------------------------------------------- transcript markup
\* generate_transcript_html: data-start / data-end are written only when the
\* field is not '', data-matched always
generate_transcript_html(transcript_data) ==
    [i \in DOMAIN transcript_data |->
        [start   |-> IF transcript_data[i].begin_time # "" THEN transcript_data[i].begin_time ELSE "",
         end     |-> IF transcript_data[i].end_time # "" THEN transcript_data[i].end_time ELSE "",
         matched |-> transcript_data[i].matched]]
\* ------------------------------------------------------------ the loaders
\* item['text'] of generate_transcript_html raises KeyError on a record
\* without that key
KeyError(transcript_data) ==
    \E i \in DOMAIN transcript_data : "text" \notin DOMAIN transcript_data[i]
\* the records item['text'] can be read from
ValidRecords(transcript_data) ==
    {i \in DOMAIN transcript_data : "text" \in DOMAIN transcript_data[i]}

IsDigit(c) == c \in {Numerals[k] : k \in 1..Len(Numerals)}
IsSpace(c) == c \in {" ", "\t"}
CharAt(s, k) == SubSeq(s, k, k)

\* the place after the longest run of digits (\d+) that starts at place k
RECURSIVE DigitRun(_, _)
DigitRun(s, k) ==
    IF k <= Len(s) /\ IsDigit(CharAt(s, k)) THEN DigitRun(s, k + 1) ELSE k

\* the place after the longest run of whitespace (\s*) that starts at place k
RECURSIVE SpaceRun(_, _)
SpaceRun(s, k) ==
    IF k <= Len(s) /\ IsSpace(CharAt(s, k)) THEN SpaceRun(s, k + 1) ELSE k

\* the prefix pattern with one optional blank in place of \s*
strip_node_prefix_OneSpace(line) ==
    IF Len(line) >= 5 /\ SubSeq(line, 1, 5) = "Node "
    THEN LET d == DigitRun(line, 6)
         IN IF d > 6 /\ d <= Len(line) /\ CharAt(line, d) = ":"
            THEN SubSeq(line,
                        IF d + 1 <= Len(line) /\ IsSpace(CharAt(line, d + 1))
                        THEN d + 2 ELSE d + 1,
                        Len(line))
            ELSE line
    ELSE line

\* re.sub(r'^Node \d+:\s*', '', line)
strip_node_prefix(line) ==
    IF Len(line) >= 5 /\ SubSeq(line, 1, 5) = "Node "
    THEN LET d == DigitRun(line, 6)
         IN IF d > 6 /\ d <= Len(line) /\ CharAt(line, d) = ":"
            THEN SubSeq(line, SpaceRun(line, d + 1), Len(line))
            ELSE line
    ELSE line

\* response.text.strip().split('\n') on a body given as its lines, blank
\* being the blank line: blank lines at either end go, and the body that is
\* left empty still splits into one blank line
strip_split(lines, blank) ==
    LET kept == {k \in 1..Len(lines) : lines[k] # blank}
    IN IF kept = {} THEN <<blank>>
       ELSE SubSeq(lines,
                   CHOOSE k \in kept : \A m \in kept : k <= m,
                   CHOOSE k \in kept : \A m \in kept : k >= m)

\* load_transcript: what it returns, what it shows, whether requests.get raised
load_transcript(response) ==
    CASE response.kind = "ok" ->
            [raised |-> FALSE, data |-> response.data, shown |-> {}]
      [] response.kind = "undecodable" ->
            [raised |-> FALSE, data |-> <<>>, shown |-> {"Error decoding JSON"}]
      [] response.kind = "status" ->
            [raised |-> FALSE, data |-> <<>>, shown |-> {"Transcript file not found"}]
      [] response.kind = "transport" ->
            [raised |-> TRUE, data |-> <<>>, shown |-> {}]

\* load_nodes; no request unless the language is English and the session
\* flag is set
load_nodes(language, use_causal_relations, response) ==
    IF language = "English" /\ use_causal_relations
    THEN CASE response.kind = "ok" ->
                 [requested |-> TRUE, raised |-> FALSE, shown |-> {},
                  data |-> LET nodes_raw_lines == strip_split(response.data, "")
                           IN [k \in 1..Len(nodes_raw_lines) |->
                                  strip_node_prefix(nodes_raw_lines[k])]]
           [] response.kind = "status" ->
                 [requested |-> TRUE, raised |-> FALSE, shown |-> {"Nodes file not found"},
                  data |-> <<>>]
           [] response.kind = "transport" ->
                 [requested |-> TRUE, raised |-> TRUE, shown |-> {}, data |-> <<>>]
    ELSE [requested |-> FALSE, raised |-> FALSE, shown |-> {}, data |-> <<>>]

\* load_causal_graph
load_causal_graph(language, use_causal_relations, response) ==
    IF language = "English" /\ use_causal_relations
    THEN CASE response.kind = "ok" ->
                 [requested |-> TRUE, raised |-> FALSE, shown |-> {},
                  data |-> strip_split(response.data, <<"">>)]
           [] response.kind = "status" ->
                 [requested |-> TRUE, raised |-> FALSE, shown |-> {"Edges file not found"},
                  data |-> <<>>]
           [] response.kind = "transport" ->
                 [requested |-> TRUE, raised |-> TRUE, shown |-> {}, data |-> <<>>]
    ELSE [requested |-> FALSE, raised |-> FALSE, shown |-> {}, data |-> <<>>]

\* the session flag that keeps its old value when the language is not English
sessionFlag_KeepsOld(selected_language, checkbox) ==
    IF selected_language = "English" THEN checkbox ELSE run.session

\* st.session_state.use_causal_relations as main() sets it
sessionFlag(selected_language, checkbox) ==
    IF selected_language = "English" THEN checkbox ELSE FALSE

\* ---------------------------------------------------------------- the scan
RECURSIVE PredecessorScan(_, _, _, _)
PredecessorScan(nodeId, edges, k, acc) ==
    IF k > Len(edges) THEN [threw |-> FALSE, ids |-> acc]
    ELSE IF Len(edges[k]) < 2 THEN [threw |-> TRUE, ids |-> <<>>]
    ELSE LET source == parseInt(edges[k][1])
             target == parseInt(edges[k][2])
         IN PredecessorScan(nodeId, edges, k + 1,
                            IF target = nodeId THEN Append(acc, source) ELSE acc)

RECURSIVE SuccessorScan(_, _, _, _)
SuccessorScan(nodeId, edges, k, acc) ==
    IF k > Len(edges) THEN [threw |-> FALSE, ids |-> acc]
    ELSE IF Len(edges[k]) < 2 THEN [threw |-> TRUE, ids |-> <<>>]
    ELSE LET source == parseInt(edges[k][1])
             target == parseInt(edges[k][2])
         IN SuccessorScan(nodeId, edges, k + 1,
                          IF source = nodeId THEN Append(acc, target) ELSE acc)
\* the predecessor scan testing the source where it should test the target
getDirectPredecessors_TestsSource(nodeId, edges) == SuccessorScan(nodeId, edges, 1, <<>>)
\* the predecessor scan returning its ids in numeric order
getDirectPredecessors_Sorted(nodeId, edges) ==
    LET r == PredecessorScan(nodeId, edges, 1, <<>>)
    IN [threw |-> r.threw, ids |-> SortSeq(r.ids, LAMBDA a, b : a < b)]

\* getDirectPredecessors: the sources of the lines whose target is nodeId, in
\* line order; targetStr.trim() throws on a line without '->'
getDirectPredecessors(nodeId, edges) == PredecessorScan(nodeId, edges, 1, <<>>)

\* getDirectSuccessors: the targets of the lines whose source is nodeId
getDirectSuccessors(nodeId, edges) == SuccessorScan(nodeId, edges, 1, <<>>)

includes(arr, x) == \E k \in 1..Len(arr) : arr[k] = x

\* --------------------------------------------------- the sentence elements
isMatched(i) == sentences[i].matched = "yes"
\* startAttr ? parseFloat(startAttr) : 0
startOf_DefaultZero(i) ==
    IF sentences[i].start # "" THEN parseFloat(sentences[i].start) ELSE 0

\* startAttr ? parseFloat(startAttr) : null
startOf(i) == IF sentences[i].start # "" THEN parseFloat(sentences[i].start) ELSE Null

\* endAttr ? parseFloat(endAttr) : null
endOf(i) == IF sentences[i].end # "" THEN parseFloat(sentences[i].end) ELSE Null
\* the timing guard without the isNaN tests
hasTiming_NoNaNTest(i) ==
    /\ startOf(i) # Null
    /\ endOf(i) # Null

\* start !== null && end !== null && !isNaN(start) && !isNaN(end)
hasTiming(i) ==
    /\ startOf(i) # Null
    /\ endOf(i) # Null
    /\ ~isNaN(startOf(i))
    /\ ~isNaN(endOf(i))
\* the interval test with the end included
matchesTime_ClosedEnd(i, t) == hasTiming(i) /\ t >= startOf(i) /\ t <= endOf(i)
\* the interval test with the begin time left out
matchesTime_OpenStart(i, t) ==
    /\ hasTiming(i)
    /\ t > startOf(i)
    /\ t < endOf(i)

\* currentTime >= start && currentTime < end, under the timing guard
matchesTime(i, t) == hasTiming(i) /\ t >= startOf(i) /\ t < endOf(i)
\* highlightSentence that adds the class without removing the earlier ones
highlightSentence_NoClear(cls, i) ==
    [j \in SegIds |->
        IF j = i
        THEN cls[j] \cup {IF isMatched(i) THEN "highlight" ELSE "unmatched-highlight"}
        ELSE cls[j]]

\* ---------------------------------------------------------- highlighting
\* highlightSentence: every highlight class is removed from every sentence,
\* then the sentence gets 'highlight' or 'unmatched-highlight'
highlightSentence(cls, i) ==
    [j \in SegIds |->
        IF j = i
        THEN (cls[j] \ HighlightClasses)
                \cup {IF isMatched(i) THEN "highlight" ELSE "unmatched-highlight"}
        ELSE cls[j] \ HighlightClasses]
\* highlightCausalSentences without the skip of the selected sentence
highlightCausalSentences_NoSkip(cls, predecessorIds, successorIds) ==
    [j \in SegIds |->
        (cls[j] \ {"predecessor-highlight", "successor-highlight"})
            \cup (IF includes(predecessorIds, j) THEN {"predecessor-highlight"}
                  ELSE IF includes(successorIds, j) THEN {"successor-highlight"}
                  ELSE {})]
\* highlightCausalSentences with two independent tests in place of else-if
highlightCausalSentences_BothClasses(cls, predecessorIds, successorIds) ==
    [j \in SegIds |->
        IF "highlight" \in cls[j] \/ "unmatched-highlight" \in cls[j]
        THEN cls[j]
        ELSE (cls[j] \ {"predecessor-highlight", "successor-highlight"})
                \cup (IF includes(predecessorIds, j) THEN {"predecessor-highlight"} ELSE {})
                \cup (IF includes(successorIds, j) THEN {"successor-highlight"} ELSE {})]

\* highlightCausalSentences: the selected sentence is skipped; every other one
\* loses its causal classes and gets the predecessor class, else the successor one
highlightCausalSentences(cls, predecessorIds, successorIds) ==
    [j \in SegIds |->
        IF "highlight" \in cls[j] \/ "unmatched-highlight" \in cls[j]
        THEN cls[j]
        ELSE (cls[j] \ {"predecessor-highlight", "successor-highlight"})
                \cup (IF includes(predecessorIds, j) THEN {"predecessor-highlight"}
                      ELSE IF includes(successorIds, j) THEN {"successor-highlight"}
                      ELSE {})]

clearCausalHighlights(cls) ==
    [j \in SegIds |-> cls[j] \ {"predecessor-highlight", "successor-highlight"}]
\* the reset that removes the causal classes only
removeAllHighlights_CausalOnly(cls) ==
    [j \in SegIds |-> cls[j] \ {"predecessor-highlight", "successor-highlight"}]

\* the reset of a time that matches no sentence: all four classes removed
removeAllHighlights(cls) == [j \in SegIds |-> cls[j] \ HighlightClasses]

\* ------------------------------------------------------------- the graph
\* document.getElementById('graph'): the element exists only when main()
\* emitted the graph section
graphContainer == useCausalRelations

\* nodes[nodeId] written to textContent: undefined shows as no text
nodeText(nodeId) ==
    IF nodeId >= 0 /\ nodeId < Len(nodes) THEN nodes[nodeId + 1] ELSE ""

nodeTexts(ids) == [k \in 1..Len(ids) |-> nodeText(ids[k])]

arrowElement == [kind |-> "edge", title |-> "arrow", texts |-> <<>>]
\* updateGraph without graphContainer.innerHTML = '': the new groups are
\* appended to what the graph held
updateGraph_Append(g, selectedNodeId, predecessors, successors) ==
    IF ~useCausalRelations \/ ~graphContainer THEN g
    ELSE g \o << [kind |-> "node-group", title |-> "Current Event",
                  texts |-> <<nodeText(selectedNodeId)>>] >>
\* updateGraph that draws the arrow above the current group whether or not
\* a Predecessors group was rendered
updateGraph_ArrowAlways(g, selectedNodeId, predecessors, successors) ==
    IF ~useCausalRelations \/ ~graphContainer THEN g
    ELSE (IF Len(predecessors) > 0
          THEN << [kind |-> "node-group", title |-> "Predecessors",
                   texts |-> nodeTexts(predecessors)] >>
          ELSE <<>>)
         \o << arrowElement,
               [kind |-> "node-group", title |-> "Current Event",
                texts |-> <<nodeText(selectedNodeId)>>] >>
         \o (IF Len(successors) > 0
             THEN << arrowElement,
                     [kind |-> "node-group", title |-> "Successors",
                      texts |-> nodeTexts(successors)] >>
             ELSE <<>>)

\* updateGraph: the children of the main container that replaces the graph
updateGraph(g, selectedNodeId, predecessors, successors) ==
    IF ~useCausalRelations \/ ~graphContainer THEN g
    ELSE (IF Len(predecessors) > 0
          THEN << [kind |-> "node-group", title |-> "Predecessors",
                   texts |-> nodeTexts(predecessors)],
                  arrowElement >>
          ELSE <<>>)
         \o << [kind |-> "node-group", title |-> "Current Event",
                texts |-> <<nodeText(selectedNodeId)>>] >>
         \o (IF Len(successors) > 0
             THEN << arrowElement,
                     [kind |-> "node-group", title |-> "Successors",
                      texts |-> nodeTexts(successors)] >>
             ELSE <<>>)
\* the clearing branch that leaves the graph as it is
clearGraph_Keep(g) == g

\* if (graphContainer) graphContainer.innerHTML = ''
clearGraph(g) == IF graphContainer THEN <<>> ELSE g
\* the causal part without the matched test
propagateCausal_NoMatchedGate(d, nodeId) ==
    IF useCausalRelations /\ Len(causalEdges) > 0
    THEN LET predecessors == getDirectPredecessors(nodeId, causalEdges)
             successors == getDirectSuccessors(nodeId, causalEdges)
         IN IF predecessors.threw \/ successors.threw
            THEN [d EXCEPT !.threw = TRUE]
            ELSE [cls   |-> highlightCausalSentences(d.cls, predecessors.ids, successors.ids),
                  graph |-> updateGraph(d.graph, nodeId, predecessors.ids, successors.ids),
                  threw |-> FALSE]
    ELSE [cls |-> clearCausalHighlights(d.cls), graph |-> clearGraph(d.graph),
          threw |-> FALSE]

\* ------------------------------------------------------------ the listeners
\* the causal part both listeners run after highlightSentence(sentence); d is
\* the page [cls, graph, threw]; a throwing scan leaves the page as it is
propagateCausal(d, nodeId) ==
    IF useCausalRelations /\ Len(causalEdges) > 0
    THEN IF isMatched(nodeId)
         THEN LET predecessors == getDirectPredecessors(nodeId, causalEdges)
                  successors == getDirectSuccessors(nodeId, causalEdges)
              IN IF predecessors.threw \/ successors.threw
                 THEN [d EXCEPT !.threw = TRUE]
                 ELSE [cls   |-> highlightCausalSentences(d.cls, predecessors.ids, successors.ids),
                       graph |-> updateGraph(d.graph, nodeId, predecessors.ids, successors.ids),
                       threw |-> FALSE]
         ELSE [cls |-> clearCausalHighlights(d.cls), graph |-> clearGraph(d.graph),
               threw |-> FALSE]
    ELSE [cls |-> clearCausalHighlights(d.cls), graph |-> clearGraph(d.graph),
          threw |-> FALSE]

\* the click listener's effect on the page
clickSentence(d, i) ==
    propagateCausal([d EXCEPT !.cls = highlightSentence(d.cls, i)], i)

\* sentences.forEach of checkAndHighlightCurrentSentence from sentence i on
RECURSIVE forEachSentence(_, _, _, _)
forEachSentence(d, t, i, matchedFound) ==
    IF i >= NumSegments THEN [d |-> d, matchedFound |-> matchedFound]
    ELSE IF matchesTime(i, t)
         THEN LET after == clickSentence(d, i)
              IN IF after.threw THEN [d |-> after, matchedFound |-> TRUE]
                 ELSE forEachSentence(after, t, i + 1, TRUE)
         ELSE forEachSentence(d, t, i + 1, matchedFound)

checkAndHighlightCurrentSentence(d, t) ==
    LET r == forEachSentence(d, t, 0, FALSE)
    IN IF r.d.threw THEN r.d
       ELSE IF ~r.matchedFound
            THEN [cls   |-> clearCausalHighlights(removeAllHighlights(r.d.cls)),
                  graph |-> clearGraph(r.d.graph),
                  threw |-> FALSE]
            ELSE r.d

\* the page as the listeners find it
Page == [cls |-> classList, graph |-> graph, threw |-> FALSE]

\* the page before any listener ran
BlankPage == [cls |-> [j \in SegIds |-> {}], graph |-> <<>>, threw |-> FALSE]
\* no component on the page: before the first run, and after a run that raised
NoPage ==
    /\ sentences = <<>>
    /\ useCausalRelations = FALSE
    /\ causalEdges = <<>>
    /\ nodes = <<>>
    /\ classList = <<>>
    /\ graph = <<>>
    /\ currentTime = 0
    /\ playing = FALSE
    /\ seekPending = FALSE
    /\ lastEvent = [kind |-> "none", arg |-> 0, threw |-> FALSE]

\* the run of main() that put up a page for an English video: every request
\* answered, the edge request with a 200 unless the page has no edges
ShownRun(transcript_data, use_causal_relations, edges) ==
    [ran        |-> TRUE,
     language   |-> "English",
     checkbox   |-> use_causal_relations,
     session    |-> use_causal_relations,
     fetched    |-> IF use_causal_relations THEN {"transcript", "nodes", "edges"}
                    ELSE {"transcript"},
     responses  |-> [transcript |-> "ok",
                     nodes |-> IF use_causal_relations THEN "ok" ELSE "none",
                     edges |-> IF ~use_causal_relations THEN "none"
                               ELSE IF edges = <<>> THEN "status" ELSE "ok"],
     valid      |-> ValidRecords(transcript_data),
     shown      |-> IF use_causal_relations /\ edges = <<>>
                    THEN {"Edges file not found", "Causal relations data is not available"}
                    ELSE {},
     component  |-> TRUE]

\* the listeners exist once the component is on the page, and act on its
\* sentence elements
Ready == run.component /\ DOMAIN sentences = SegIds

\* ------------------------------------------------------------------- Init
Init ==
    /\ useCausalRelations \in BOOLEAN
    /\ \E transcript_data \in TimingFeeds \cup UnitFeeds :
           /\ sentences = generate_transcript_html(transcript_data)
           /\ IF useCausalRelations
              THEN /\ causalEdges \in (IF transcript_data \in UnitFeeds
                                        THEN EdgeFeeds ELSE ChainFeeds)
                   /\ nodes = [k \in 1..NumSegments |-> NodeLabels[k]]
                   /\ nodes_raw = NodeFile(NumSegments)
              ELSE /\ causalEdges = <<>>
                   /\ nodes = <<>>
                   /\ nodes_raw = <<>>
           /\ edges_raw = causalEdges
           /\ run = ShownRun(transcript_data, useCausalRelations, causalEdges)
    /\ console = <<>>
    /\ classList = BlankPage.cls
    /\ graph = <<>>
    /\ currentTime = 0
    /\ playing = FALSE
    /\ seekPending = FALSE
    /\ lastEvent = [kind |-> "none", arg |-> 0, threw |-> FALSE]

\* ---------------------------------------------------------------- actions
\* a click on sentence i
Click(i) ==
    LET d == clickSentence(Page, i)
        startTime == startOf(i)
    IN /\ Ready
       /\ classList' = d.cls
       /\ graph' = d.graph
       /\ IF startTime # Null /\ ~isNaN(startTime)
          THEN /\ currentTime' = startTime
               /\ playing' = TRUE
               /\ seekPending' = TRUE
          ELSE UNCHANGED <<currentTime, playing, seekPending>>
       /\ lastEvent' = [kind |-> "click", arg |-> i, threw |-> d.threw]
       /\ UNCHANGED <<sentences, useCausalRelations, causalEdges, nodes>>
       /\ UNCHANGED <<run, nodes_raw, edges_raw, console>>

\* 'timeupdate' with the playback position at t; a pending seek holds the position
TimeUpdate(t) ==
    /\ Ready
    /\ seekPending => t = currentTime
    /\ LET d == checkAndHighlightCurrentSentence(Page, t)
       IN /\ classList' = d.cls
          /\ graph' = d.graph
          /\ lastEvent' = [kind |-> "timeupdate", arg |-> t, threw |-> d.threw]
    /\ currentTime' = t
    /\ UNCHANGED <<playing, seekPending>>
    /\ UNCHANGED <<sentences, useCausalRelations, causalEdges, nodes>>
    /\ UNCHANGED <<run, nodes_raw, edges_raw, console>>

\* 'seeked' at t: the seek a click commanded, or one made with the controls
Seeked(t) ==
    /\ Ready
    /\ seekPending => t = currentTime
    /\ LET d == checkAndHighlightCurrentSentence(Page, t)
       IN /\ classList' = d.cls
          /\ graph' = d.graph
          /\ lastEvent' = [kind |-> "seeked", arg |-> t, threw |-> d.threw]
    /\ currentTime' = t
    /\ seekPending' = FALSE
    /\ UNCHANGED playing
    /\ UNCHANGED <<sentences, useCausalRelations, causalEdges, nodes>>
    /\ UNCHANGED <<run, nodes_raw, edges_raw, console>>
\* one run of main(): the widgets stand at selected_language and checkbox,
\* the three requests are answered by tr, nr and er; an exception leaves
\* main() for the handler at the bottom of the script, which shows it
main(selected_language, checkbox, tr, nr, er) ==
    LET use_causal_relations == IF selected_language = "English" THEN checkbox ELSE FALSE
        session == sessionFlag(selected_language, checkbox)
        wanted == selected_language = "English" /\ use_causal_relations
        T == load_transcript(tr)
        N == IF wanted /\ ~T.raised
             THEN load_nodes(selected_language, session, nr)
             ELSE load_nodes(selected_language, FALSE, NoResponse)
        E == IF wanted /\ ~T.raised /\ ~N.raised
             THEN load_causal_graph(selected_language, session, er)
             ELSE load_causal_graph(selected_language, FALSE, NoResponse)
        raised == T.raised \/ N.raised \/ E.raised \/ KeyError(T.data)
    IN /\ run' = [ran        |-> TRUE,
                  language   |-> selected_language,
                  checkbox   |-> use_causal_relations,
                  session    |-> session,
                  fetched    |-> {"transcript"}
                                 \cup (IF N.requested THEN {"nodes"} ELSE {})
                                 \cup (IF E.requested THEN {"edges"} ELSE {}),
                  responses  |-> [transcript |-> tr.kind,
                                  nodes |-> IF N.requested THEN nr.kind ELSE "none",
                                  edges |-> IF E.requested THEN er.kind ELSE "none"],
                  valid      |-> ValidRecords(T.data),
                  shown      |-> T.shown \cup N.shown \cup E.shown
                                 \cup (IF raised THEN {"An error occurred"}
                                       ELSE IF selected_language # "English"
                                       THEN {"Causal relations are not available"}
                                       ELSE IF use_causal_relations /\ E.data = <<>>
                                       THEN {"Causal relations data is not available"}
                                       ELSE {}),
                  component  |-> ~raised]
       /\ nodes_raw' = (IF N.requested /\ nr.kind = "ok" THEN nr.data ELSE <<>>)
       /\ edges_raw' = (IF E.requested /\ er.kind = "ok" THEN er.data ELSE <<>>)
       /\ IF raised
          THEN /\ sentences' = <<>>
               /\ useCausalRelations' = FALSE
               /\ causalEdges' = <<>>
               /\ nodes' = <<>>
               /\ classList' = <<>>
               /\ graph' = <<>>
               /\ currentTime' = 0
               /\ playing' = FALSE
               /\ seekPending' = FALSE
               /\ lastEvent' = [kind |-> "none", arg |-> 0, threw |-> FALSE]
          ELSE /\ sentences' = generate_transcript_html(T.data)
               /\ useCausalRelations' = use_causal_relations
               /\ causalEdges' = E.data
               /\ nodes' = N.data
               /\ classList' = [j \in DOMAIN T.data |-> {}]
               /\ graph' = <<>>
               /\ currentTime' = 0
               /\ playing' = FALSE
               /\ seekPending' = FALSE
               /\ lastEvent' = [kind |-> "none", arg |-> 0, threw |-> FALSE]
       /\ UNCHANGED console

\* label stripping on its own: the list comprehension of load_nodes
StripLines ==
    /\ ~run.ran
    /\ nodes = <<>>
    /\ nodes_raw # <<>>
    /\ nodes' = [k \in 1..Len(nodes_raw) |-> strip_node_prefix(nodes_raw[k])]
    /\ UNCHANGED <<sentences, useCausalRelations, causalEdges, classList, graph,
                   currentTime, playing, seekPending, lastEvent,
                   run, nodes_raw, edges_raw, console>>

Next ==
    \/ \E i \in SegIds : Click(i)
    \/ \E t \in Times : TimeUpdate(t)
    \/ \E t \in Times : Seeked(t)

Spec == Init /\ [][Next]_vars

\* the browser raises 'seeked' once a seek that was commanded has completed
FairSpec == Spec /\ WF_vars(seekPending /\ \E t \in Times : Seeked(t))

\* --------------------------------------------------- the runs of main()
\* the session before the first run
NotRun ==
    [ran        |-> FALSE,
     language   |-> "English",
     checkbox   |-> FALSE,
     session    |-> FALSE,
     fetched    |-> {},
     responses  |-> [transcript |-> "none", nodes |-> "none", edges |-> "none"],
     valid      |-> {},
     shown      |-> {},
     component  |-> FALSE]

LoadInit ==
    /\ NoPage
    /\ run = NotRun
    /\ nodes_raw = <<>>
    /\ edges_raw = <<>>
    /\ console = <<>>

\* a run starts whenever a widget changes; without the checkbox, or for
\* another language, only the transcript is requested
LoadNext ==
    \/ \E selected_language \in languages, tr \in TranscriptResponses :
           main(selected_language, FALSE, tr, NoResponse, NoResponse)
    \/ \E tr \in TranscriptResponses, nr \in NodeResponses, er \in EdgeResponses :
           main("English", TRUE, tr, nr, er)
    \/ \E i \in SegIds : Click(i)
    \/ \E t \in Times : TimeUpdate(t)
    \/ \E t \in Times : Seeked(t)

LoadSpec == LoadInit /\ [][LoadNext]_vars

\* ------------------------------------------------------- label stripping
MaxTokens == 4

LineTokens == {"Node 1:", "Node ", "1", ":", " ", "\t", "x"}

\* the lines made of up to n tokens
RECURSIVE LinesUpTo(_)
LinesUpTo(n) ==
    IF n = 0 THEN {""}
    ELSE LET shorter == LinesUpTo(n - 1)
         IN shorter \cup {l \o t : l \in shorter, t \in LineTokens}

StripInit ==
    /\ NoPage
    /\ run = NotRun
    /\ nodes_raw \in {<<l>> : l \in LinesUpTo(MaxTokens)}
    /\ edges_raw = <<>>
    /\ console = <<>>

StripNext == StripLines

StripSpec == StripInit /\ [][StripNext]_vars

TypeOK ==
    /\ classList \in [DOMAIN sentences -> SUBSET HighlightClasses]
    /\ currentTime \in Times
    /\ playing \in BOOLEAN
    /\ seekPending \in BOOLEAN

\* ================================================================ properties
\* what the transcript says, read off the attributes
HasInterval(i) ==
    /\ sentences[i].start \in DOMAIN NumeralValue
    /\ sentences[i].end \in DOMAIN NumeralValue

BeginTime(i) == NumeralValue[sentences[i].start]
EndTime(i) == NumeralValue[sentences[i].end]

\* t lies in the half-open interval of segment i
Covers(i, t) == HasInterval(i) /\ BeginTime(i) <= t /\ t < EndTime(i)

Matched(i) == sentences[i].matched = "yes"

\* what the page shows
Selected(j) == "highlight" \in classList[j] \/ "unmatched-highlight" \in classList[j]

Causal(j) ==
    "predecessor-highlight" \in classList[j] \/ "successor-highlight" \in classList[j]

AfterTimeEvent == lastEvent.kind \in {"timeupdate", "seeked"}
AfterClick == lastEvent.kind = "click"

\* ------------------------------------------------------------------------ C1
\* C1 as stated: after a time-update or seek-completed event at t, every
\* segment with begin < end and begin <= t < end is the selected one, and a
\* segment with end = t is not selected.
C1_AsStated ==
    AfterTimeEvent =>
        \A i \in SegIds :
            (HasInterval(i) /\ BeginTime(i) < EndTime(i)) =>
                /\ Covers(i, lastEvent.arg) => Selected(i)
                /\ lastEvent.arg = EndTime(i) => ~Selected(i)

\* C1, amended: after a time-update or seek-completed event at t, a segment
\* with begin < end and begin <= t < end is the selected one provided no other
\* segment's interval contains t, and a segment with end = t is not selected.
C1_SelectedInInterval ==
    AfterTimeEvent =>
        \A i \in SegIds :
            (HasInterval(i) /\ BeginTime(i) < EndTime(i)) =>
                /\ (/\ Covers(i, lastEvent.arg)
                    /\ \A j \in SegIds \ {i} : ~Covers(j, lastEvent.arg))
                        => Selected(i)
                /\ lastEvent.arg = EndTime(i) => ~Selected(i)

\* a time event at the boundary two consecutive segments share: the one that
\* begins there is selected, the one that ends there is not
C1_Witness ==
    /\ AfterTimeEvent
    /\ \E i \in SegIds, j \in SegIds :
          /\ HasInterval(i) /\ BeginTime(i) < EndTime(i)
          /\ EndTime(i) = lastEvent.arg
          /\ Covers(j, lastEvent.arg)
          /\ Selected(j) /\ ~Selected(i)

\* ------------------------------------------------------------------------ C2
\* C2: after a time-update or seek-completed event at a time that lies in no
\* segment's [begin, end), every segment has no highlight class and the graph
\* is empty.
C2_FullReset ==
    (AfterTimeEvent /\ \A i \in SegIds : ~Covers(i, lastEvent.arg)) =>
        /\ \A j \in SegIds : classList[j] = {}
        /\ graph = <<>>

\* causal mode with edges, a time event past every interval of a transcript
\* that has one, while the video is playing (a click started it)
C2_Witness ==
    /\ AfterTimeEvent
    /\ \A i \in SegIds : ~Covers(i, lastEvent.arg)
    /\ \E i \in SegIds : HasInterval(i) /\ Matched(i)
    /\ useCausalRelations /\ Len(causalEdges) > 0
    /\ playing
    /\ \A j \in SegIds : classList[j] = {}
    /\ graph = <<>>

\* ------------------------------------------------------------------------ C3
\* C3: every event is a full recompute: the classes and the graph after an
\* event are those the same event produces on the blank page, whatever the
\* earlier events left.
C3_FullRecompute ==
    /\ AfterClick =>
          LET d == clickSentence(BlankPage, lastEvent.arg)
          IN classList = d.cls /\ graph = d.graph
    /\ AfterTimeEvent =>
          LET d == checkAndHighlightCurrentSentence(BlankPage, lastEvent.arg)
          IN classList = d.cls /\ graph = d.graph

\* a time event that selected a matched segment with neighbours, reached
\* while the video is playing, that is after a click
C3_Witness ==
    /\ AfterTimeEvent
    /\ playing
    /\ \E j \in SegIds : Causal(j)
    /\ graph # <<>>

\* ------------------------------------------------------------------------ C4
\* C4: after an event that selected a segment, a Predecessor or Successor
\* class or a non-empty graph occurs only if causal mode is on, the selected
\* segment is matched and the edge list is not empty.
C4_PropagationGated ==
    (AfterClick \/ AfterTimeEvent) =>
        \A a \in SegIds :
            Selected(a) =>
                (((\E j \in SegIds : Causal(j)) \/ graph # <<>>) =>
                    (useCausalRelations /\ Matched(a) /\ Len(causalEdges) > 0))

\* an unmatched segment with an edge to another one is clicked, causal mode on
C4_Witness ==
    /\ AfterClick
    /\ useCausalRelations
    /\ ~Matched(lastEvent.arg)
    /\ Selected(lastEvent.arg)
    /\ \E k \in 1..Len(causalEdges) :
          /\ Len(causalEdges[k]) = 2
          /\ causalEdges[k][1] = NumStr(lastEvent.arg)
          /\ causalEdges[k][2] # NumStr(lastEvent.arg)
          /\ causalEdges[k][2] \in DOMAIN NumeralValue
    /\ \A j \in SegIds : ~Causal(j)
    /\ graph = <<>>

\* ------------------------------------------------------------------------ C5
\* the edges the feed states: the lines that read as two integers
StatedEdges ==
    {<<NumeralValue[causalEdges[k][1]], NumeralValue[causalEdges[k][2]]>> :
        k \in {x \in 1..Len(causalEdges) :
                  /\ Len(causalEdges[x]) = 2
                  /\ causalEdges[x][1] \in DOMAIN NumeralValue
                  /\ causalEdges[x][2] \in DOMAIN NumeralValue}}

PredecessorsOf(n) == {e[1] : e \in {x \in StatedEdges : x[2] = n}}
SuccessorsOf(n) == {e[2] : e \in {x \in StatedEdges : x[1] = n}}

\* C5: when causal propagation applies to the selected segment a (causal mode
\* on, a matched, edge list not empty), every other segment is classed
\* Predecessor if it is a predecessor of a, else Successor if it is a
\* successor of a, else it has no class.
C5_NeighbourClasses ==
    (AfterClick \/ AfterTimeEvent) =>
        \A a \in SegIds :
            (Selected(a) /\ useCausalRelations /\ Matched(a) /\ Len(causalEdges) > 0) =>
                \A j \in SegIds \ {a} :
                    classList[j] =
                        IF j \in PredecessorsOf(a) THEN {"predecessor-highlight"}
                        ELSE IF j \in SuccessorsOf(a) THEN {"successor-highlight"}
                        ELSE {}

\* ------------------------------------------------------------------------ C6
\* C6: the segment a click names is selected, and a selected segment carries
\* exactly 'highlight' if it is matched and exactly 'unmatched-highlight'
\* otherwise, never a Predecessor or Successor class.
C6_SelectionTakesPrecedence ==
    /\ AfterClick => Selected(lastEvent.arg)
    /\ \A j \in SegIds :
          Selected(j) =>
              classList[j] = {IF Matched(j) THEN "highlight" ELSE "unmatched-highlight"}

\* a matched segment with a self-loop was selected and the propagation ran
C6_Witness ==
    /\ (AfterClick \/ AfterTimeEvent)
    /\ ~lastEvent.threw
    /\ useCausalRelations
    /\ \E a \in SegIds :
          /\ Selected(a) /\ Matched(a)
          /\ <<a, a>> \in StatedEdges
          /\ classList[a] = {"highlight"}
          /\ graph # <<>>

\* ------------------------------------------------------------------------ C7
WellFormedFeed ==
    \A k \in 1..Len(causalEdges) :
        /\ Len(causalEdges[k]) = 2
        /\ causalEdges[k][1] \in DOMAIN NumeralValue
        /\ causalEdges[k][2] \in DOMAIN NumeralValue

Elements(arr) == {arr[k] : k \in 1..Len(arr)}

\* C7: on an edge list of well-formed lines, getDirectPredecessors(n) holds
\* exactly the sources of the edges into n and getDirectSuccessors(n) exactly
\* the targets of the edges out of n: one hop only, and n itself only with a
\* self-loop.
C7_DirectNeighbours ==
    WellFormedFeed =>
        \A n \in SegIds :
            /\ ~getDirectPredecessors(n, causalEdges).threw
            /\ ~getDirectSuccessors(n, causalEdges).threw
            /\ Elements(getDirectPredecessors(n, causalEdges).ids)
                  = {e[1] : e \in {x \in StatedEdges : x[2] = n}}
            /\ Elements(getDirectSuccessors(n, causalEdges).ids)
                  = {e[2] : e \in {x \in StatedEdges : x[1] = n}}
            /\ (<<n, n>> \notin StatedEdges) =>
                  /\ n \notin Elements(getDirectPredecessors(n, causalEdges).ids)
                  /\ n \notin Elements(getDirectSuccessors(n, causalEdges).ids)

\* a click scanned a feed in which the clicked node reaches itself through
\* two edges and has no self-loop
C7_Witness ==
    /\ AfterClick /\ useCausalRelations /\ WellFormedFeed
    /\ Matched(lastEvent.arg)
    /\ \E m \in SegIds \ {lastEvent.arg} :
          /\ <<lastEvent.arg, m>> \in StatedEdges
          /\ <<m, lastEvent.arg>> \in StatedEdges
    /\ <<lastEvent.arg, lastEvent.arg>> \notin StatedEdges
    /\ ~Causal(lastEvent.arg)
    /\ graph # <<>>

\* ------------------------------------------------------------------------ C8
HasBegin(i) == sentences[i].start \in DOMAIN NumeralValue

\* C8: a click on segment i selects i whatever its timing; it seeks the video
\* to the begin time and plays exactly when i has a numeric begin time, and
\* otherwise leaves the video position and play state as they were.
C8_ClickSeeksIffBegin ==
    [][lastEvent'.kind = "click" =>
          /\ ("highlight" \in classList'[lastEvent'.arg]
                \/ "unmatched-highlight" \in classList'[lastEvent'.arg])
          /\ IF HasBegin(lastEvent'.arg)
             THEN /\ currentTime' = BeginTime(lastEvent'.arg)
                  /\ playing'
                  /\ seekPending'
             ELSE /\ currentTime' = currentTime
                  /\ playing' = playing
                  /\ seekPending' = seekPending]_vars

\* a segment without a numeric begin time was clicked while the video was
\* playing away from position 0
C8_Witness ==
    /\ AfterClick
    /\ ~HasBegin(lastEvent.arg)
    /\ Selected(lastEvent.arg)
    /\ playing
    /\ currentTime # 0

\* ------------------------------------------------------------------------ C9
CoveringAt(t) == {i \in SegIds : Covers(i, t)}

FirstCovering(t) == CHOOSE i \in CoveringAt(t) : \A j \in CoveringAt(t) : i <= j

\* C9: after a time-update or seek-completed event at a time that several
\* segments' intervals contain, the first of them in sequence order is the
\* selected one.
C9_FirstInOrder ==
    (AfterTimeEvent /\ Cardinality(CoveringAt(lastEvent.arg)) >= 2) =>
        /\ Selected(FirstCovering(lastEvent.arg))
        /\ \A j \in SegIds \ {FirstCovering(lastEvent.arg)} : ~Selected(j)

\* ----------------------------------------------------------------------- C10
\* C10: delivering the last event once more leaves every segment's classes
\* and the graph as they are.
C10_Idempotent ==
    /\ AfterClick =>
          LET d == clickSentence(Page, lastEvent.arg)
          IN d.cls = classList /\ d.graph = graph
    /\ AfterTimeEvent =>
          LET d == checkAndHighlightCurrentSentence(Page, lastEvent.arg)
          IN d.cls = classList /\ d.graph = graph

\* the page after a seek-completed event shows a selection with a predecessor
\* and a graph
C10_Witness ==
    /\ lastEvent.kind = "seeked"
    /\ \E j \in SegIds : "predecessor-highlight" \in classList[j]
    /\ Len(graph) >= 3

\* ----------------------------------------------------------------------- C11
GraphTitles == [k \in 1..Len(graph) |-> graph[k].title]

\* C11: a rendered graph is the sequence Predecessors group, Current group,
\* Successors group; the Current group holds exactly the selected node, a
\* Predecessors or Successors group is there exactly when the selected node
\* has predecessors or successors, and a connector stands exactly between
\* two adjacent rendered groups.
C11_RenderPlan ==
    graph # <<>> =>
        \E a \in SegIds :
            /\ Selected(a)
            /\ GraphTitles =
                  (IF PredecessorsOf(a) # {} THEN <<"Predecessors", "arrow">> ELSE <<>>)
                  \o <<"Current Event">>
                  \o (IF SuccessorsOf(a) # {} THEN <<"arrow", "Successors">> ELSE <<>>)
            /\ \A k \in 1..Len(graph) :
                  /\ graph[k].kind = (IF graph[k].title = "arrow" THEN "edge" ELSE "node-group")
                  /\ graph[k].title = "arrow" => graph[k].texts = <<>>
                  /\ graph[k].title = "Current Event" =>
                        graph[k].texts = <<NodeLabels[a + 1]>>
                  /\ graph[k].title \in {"Predecessors", "Successors"} =>
                        Len(graph[k].texts) > 0

\* Scenario B: the clicked matched segment has successors and no
\* predecessor; the graph is Current, connector, Successors
C11_Witness ==
    /\ AfterClick
    /\ Matched(lastEvent.arg)
    /\ PredecessorsOf(lastEvent.arg) = {}
    /\ SuccessorsOf(lastEvent.arg) # {}
    /\ GraphTitles = <<"Current Event", "arrow", "Successors">>

\* ----------------------------------------------------------------------- C12
\* C12: an edge line that does not read as two integers is skipped: the
\* listener that scanned the list completes, and for every node the scans
\* return what the well-formed lines alone give.
C12_MalformedSkipped ==
    (AfterClick \/ AfterTimeEvent) =>
        /\ ~lastEvent.threw
        /\ \A n \in SegIds :
              /\ ~getDirectPredecessors(n, causalEdges).threw
              /\ ~getDirectSuccessors(n, causalEdges).threw
              /\ Elements(getDirectPredecessors(n, causalEdges).ids) = PredecessorsOf(n)
              /\ Elements(getDirectSuccessors(n, causalEdges).ids) = SuccessorsOf(n)

\* ----------------------------------------------------------------------- C16
\* the lines into node a that read as two integers, in feed order
LinesInto(a) ==
    LET Into(e) == /\ Len(e) = 2
                   /\ e[1] \in DOMAIN NumeralValue
                   /\ e[2] = NumStr(a)
    IN SelectSeq(causalEdges, Into)

LinesOutOf(a) ==
    LET OutOf(e) == /\ Len(e) = 2
                    /\ e[2] \in DOMAIN NumeralValue
                    /\ e[1] = NumStr(a)
    IN SelectSeq(causalEdges, OutOf)

\* C16: the nodes of the Predecessors group and of the Successors group stand
\* in the order of their edges in the edge list.
C16_EdgeListOrder ==
    graph # <<>> =>
        \E a \in SegIds :
            /\ Selected(a)
            /\ \A k \in 1..Len(graph) :
                  /\ graph[k].title = "Predecessors" =>
                        graph[k].texts =
                            [m \in 1..Len(LinesInto(a)) |->
                                NodeLabels[NumeralValue[LinesInto(a)[m][1]] + 1]]
                  /\ graph[k].title = "Successors" =>
                        graph[k].texts =
                            [m \in 1..Len(LinesOutOf(a)) |->
                                NodeLabels[NumeralValue[LinesOutOf(a)[m][2]] + 1]]

\* the Predecessors group lists node 1 before node 0, as the edge list does
C16_Witness ==
    /\ ~lastEvent.threw
    /\ \E k \in 1..Len(graph) :
          /\ graph[k].title = "Predecessors"
          /\ Len(graph[k].texts) = 2
          /\ graph[k].texts[1] = NodeLabels[2]
          /\ graph[k].texts[2] = NodeLabels[1]

\* ----------------------------------------------------------------------- C17
LacksLine == \E k \in 1..Len(causalEdges) : Len(causalEdges[k]) < 2

\* C17: after a time-update or seek-completed event a segment whose begin or
\* end time is missing or no number is not selected, the selected segment is
\* one whose interval contains the time and there is one whenever some
\* interval does, and an error comes only from an edge line, never from the
\* timing; after a click the clicked segment is selected whatever its timing.
C17_UntimedSegments ==
    /\ AfterTimeEvent =>
          /\ \A i \in SegIds : ~HasInterval(i) => ~Selected(i)
          /\ \A j \in SegIds : Selected(j) => Covers(j, lastEvent.arg)
          /\ (\E i \in SegIds : Covers(i, lastEvent.arg)) => (\E j \in SegIds : Selected(j))
          /\ lastEvent.threw => LacksLine
    /\ AfterClick => Selected(lastEvent.arg)

\* a transcript with an untimed segment and a timed one: the time event
\* selected the timed one
C17_Witness ==
    /\ AfterTimeEvent
    /\ \E i \in SegIds, j \in SegIds :
          /\ ~HasInterval(i) /\ sentences[i].start = "n/a" /\ ~Selected(i)
          /\ Covers(j, lastEvent.arg) /\ Selected(j)

\* ----------------------------------------------------------------------- C20
\* C20: every segment carries at most one of the four highlight classes and
\* at most one segment carries 'highlight' or 'unmatched-highlight'.
C20_OneClassOneSelection ==
    /\ \A j \in SegIds : Cardinality(classList[j]) <= 1
    /\ Cardinality({j \in SegIds : Selected(j)}) <= 1

\* overlapping intervals: a time event inside two of them left one selection
C20_Witness ==
    /\ AfterTimeEvent
    /\ Cardinality(CoveringAt(lastEvent.arg)) >= 2
    /\ Cardinality({j \in SegIds : Selected(j)}) = 1

\* ----------------------------------------------------------------------- C13
\* C13: whatever the three requests come to and whatever records the
\* transcript holds, a run of main() puts up the component with one sentence
\* for every record that has its text, and a node or edge request that did not
\* succeed leaves the page with no nodes or no edges.
C13_NoFatalFault ==
    run.ran =>
        /\ run.component
        /\ Cardinality(DOMAIN sentences) = Cardinality(run.valid)
        /\ run.responses.nodes # "ok" => nodes = <<>>
        /\ run.responses.edges # "ok" => causalEdges = <<>>

\* ----------------------------------------------------------------------- C14
\* C14: after a run in which the edge request succeeded with an empty body
\* the page's edge list is empty, and a click on a matched segment then
\* completes, leaves no Predecessor or Successor class and an empty graph.
C14_EmptyEdgeFeed ==
    (run.component /\ run.responses.edges = "ok" /\ edges_raw = <<>>) =>
        /\ causalEdges = <<>>
        /\ (AfterClick /\ Matched(lastEvent.arg)) =>
              /\ ~lastEvent.threw
              /\ graph = <<>>
              /\ \A j \in SegIds : ~Causal(j)

\* ----------------------------------------------------------------------- C15
\* the ids the drawn graph shows: the selected node, its predecessors and
\* its successors
ShownIds(a) == {a} \cup PredecessorsOf(a) \cup SuccessorsOf(a)

\* a graph is drawn and one of its nodes has no entry in the label array
OutOfRangeShown ==
    /\ run.component
    /\ graph # <<>>
    /\ \E a \in SegIds : Selected(a) /\ \E id \in ShownIds(a) : id >= Len(nodes)

\* the label the page holds for node id, or none
LabelOf(id) == IF id < Len(nodes) THEN nodes[id + 1] ELSE ""

\* C15: when a node of the drawn graph has no entry in the label array, the
\* graph still has all its groups, shows that node with a blank label and
\* every other node with its label, and the anomaly is logged as a
\* DataInconsistency.
C15_OutOfRangeLogged ==
    OutOfRangeShown =>
        \E a \in SegIds :
            /\ Selected(a)
            /\ GraphTitles =
                  (IF PredecessorsOf(a) # {} THEN <<"Predecessors", "arrow">> ELSE <<>>)
                  \o <<"Current Event">>
                  \o (IF SuccessorsOf(a) # {} THEN <<"arrow", "Successors">> ELSE <<>>)
            /\ \A k \in 1..Len(graph) :
                  /\ graph[k].title = "Current Event" => graph[k].texts = <<LabelOf(a)>>
                  /\ graph[k].title = "Predecessors" =>
                        graph[k].texts =
                            [m \in 1..Len(LinesInto(a)) |->
                                LabelOf(NumeralValue[LinesInto(a)[m][1]])]
                  /\ graph[k].title = "Successors" =>
                        graph[k].texts =
                            [m \in 1..Len(LinesOutOf(a)) |->
                                LabelOf(NumeralValue[LinesOutOf(a)[m][2]])]
            /\ \E k \in 1..Len(console) : console[k] = "DataInconsistency"

\* ----------------------------------------------------------------------- C18
\* line l begins with Node, one blank, the digits at places 6..i-1, a colon
\* at place i and whitespace at places i+1..j-1, and no whitespace at place j
PrefixEnds(l, i, j) ==
    /\ Len(l) >= 7
    /\ SubSeq(l, 1, 5) = "Node "
    /\ i >= 7 /\ i <= Len(l)
    /\ \A k \in 6..(i - 1) : SubSeq(l, k, k) \in {"0", "1", "2", "3", "4", "5", "6", "7", "8", "9"}
    /\ SubSeq(l, i, i) = ":"
    /\ j > i /\ j <= Len(l) + 1
    /\ \A k \in (i + 1)..(j - 1) : SubSeq(l, k, k) \in {" ", "\t"}
    /\ j <= Len(l) => SubSeq(l, j, j) \notin {" ", "\t"}

Places(l) == 1..(Len(l) + 1)

HasPrefix(l) == \E i \in Places(l), j \in Places(l) : PrefixEnds(l, i, j)

\* the pattern as C18 words it: the colon is followed by one blank
HasPrefixAsStated(l) ==
    \E i \in Places(l), j \in Places(l) :
        PrefixEnds(l, i, j) /\ j > i + 1 /\ SubSeq(l, i + 1, i + 1) = " "

C19_NonEnglishNoCausal ==
    /\ (run.ran /\ run.language # "English") =>
          /\ ~run.session
          /\ ~useCausalRelations
          /\ ~graphContainer
          /\ run.fetched \cap {"nodes", "edges"} = {}
          /\ nodes = <<>>
          /\ causalEdges = <<>>
          /\ graph = <<>>
    /\ (run.fetched \cap {"nodes", "edges"} # {}) =>
          /\ run.language = "English"
          /\ run.checkbox

\* the page of a video in another language, in use
C19_Witness ==
    /\ run.ran
    /\ run.language = "Chinese"
    /\ run.component
    /\ AfterClick
    /\ Selected(lastEvent.arg)

\* ----------------------------------------------------------------------- C21
\* the node ids a group of the drawn graph shows, read off its labels
GroupIds(title) ==
    {id \in SegIds :
        \E k \in 1..Len(graph) :
            /\ graph[k].title = title
            /\ \E m \in 1..Len(graph[k].texts) : graph[k].texts[m] = NodeLabels[id + 1]}

\* C21 as stated: whenever the graph is not empty its Current node is the one
\* selected segment, that segment is matched, the Predecessors and Successors
\* groups hold exactly its direct predecessors and successors, and these are
\* the ids whose segments carry the Predecessor and the Successor class.
C21_AsStated ==
    graph # <<>> =>
        \E a \in SegIds :
            /\ \A j \in SegIds : Selected(j) <=> j = a
            /\ Matched(a)
            /\ GroupIds("Current Event") = {a}
            /\ GroupIds("Predecessors") = PredecessorsOf(a)
            /\ GroupIds("Successors") = SuccessorsOf(a)
            /\ GroupIds("Predecessors") =
                  {j \in SegIds : "predecessor-highlight" \in classList[j]}
            /\ GroupIds("Successors") =
                  {j \in SegIds : "successor-highlight" \in classList[j]}

\* C21 amended: whenever the graph is not empty its Current node is the one
\* selected segment, that segment is matched, the Predecessors and Successors
\* groups hold exactly its direct predecessors and successors; of these ids
\* the segments other than the selected one carry the Predecessor class if
\* they are predecessors and the Successor class if they are successors only,
\* and no other segment carries either class.
C21_GraphMatchesSelection ==
    graph # <<>> =>
        \E a \in SegIds :
            /\ \A j \in SegIds : Selected(j) <=> j = a
            /\ Matched(a)
            /\ GroupIds("Current Event") = {a}
            /\ GroupIds("Predecessors") = PredecessorsOf(a)
            /\ GroupIds("Successors") = SuccessorsOf(a)
            /\ GroupIds("Predecessors") \ {a} =
                  {j \in SegIds : "predecessor-highlight" \in classList[j]}
            /\ (GroupIds("Successors") \ GroupIds("Predecessors")) \ {a} =
                  {j \in SegIds : "successor-highlight" \in classList[j]}

\* a time event selected a matched segment with a self-loop: it is drawn as
\* the Current node and among its own predecessors, and carries the selected
\* class only
C21_Witness ==
    /\ AfterTimeEvent
    /\ graph # <<>>
    /\ \E a \in SegIds :
          /\ Selected(a)
          /\ a > 0
          /\ a \in GroupIds("Predecessors")
          /\ GroupIds("Current Event") = {a}

\* ----------------------------------------------------------------------- C22
\* C22: a click on a segment i with a numeric begin time is followed by a
\* seek-completed event, and that event is at t = begin.  If the interval of i
\* contains begin and no other interval does, the classes and the graph after
\* the event are those right after the click; if the interval of i does not
\* contain begin (or i has no interval), i is no longer selected after the
\* event and the selection is what the time resolves to: a segment whose
\* interval contains begin, or none when there is no such segment.
C22_ClickThenSeek ==
    /\ [][(AfterClick /\ HasBegin(lastEvent.arg) /\ lastEvent'.kind = "seeked") =>
            LET i == lastEvent.arg
                begin == BeginTime(i)
            IN /\ seekPending /\ currentTime = begin
               /\ lastEvent'.arg = begin /\ currentTime' = begin
               /\ (Covers(i, begin) /\ CoveringAt(begin) = {i}) =>
                     /\ classList' = classList
                     /\ graph' = graph
               /\ ~Covers(i, begin) =>
                     /\ "highlight" \notin classList'[i]
                     /\ "unmatched-highlight" \notin classList'[i]
                     /\ \A j \in SegIds :
                           ("highlight" \in classList'[j] \/ "unmatched-highlight" \in classList'[j])
                              => Covers(j, begin)
                     /\ CoveringAt(begin) # {} =>
                           \E j \in SegIds :
                              "highlight" \in classList'[j] \/ "unmatched-highlight" \in classList'[j]
                     /\ CoveringAt(begin) = {} => graph' = <<>>]_vars
    /\ ((AfterClick /\ HasBegin(lastEvent.arg)) ~> (lastEvent.kind = "seeked"))

\* the seek a click commanded has completed at the begin time of the segment
\* still selected, the video plays and the graph of that segment is drawn
C22_Witness ==
    /\ lastEvent.kind = "seeked"
    /\ ~seekPending
    /\ playing
    /\ graph # <<>>
    /\ \E i \in SegIds :
          /\ Selected(i)
          /\ HasBegin(i)
          /\ BeginTime(i) = lastEvent.arg
          /\ CoveringAt(lastEvent.arg) = {i}

\* ----------------------------------------------------------------------- C23
\* C23: no node occurs twice in the Predecessors group or twice in the
\* Successors group of the drawn graph, whatever lines the edge list repeats.
C23_NoDuplicates ==
    \A k \in 1..Len(graph) :
        graph[k].title \in {"Predecessors", "Successors"} =>
            \A m \in 1..Len(graph[k].texts), n \in 1..Len(graph[k].texts) :
                m # n => graph[k].texts[m] # graph[k].texts[n]

====
